---- MODULE Spec2Model ----
(***************************************************************************)
(* CountdownTimer of timer_app.py: the wall-clock countdown state machine. *)
(*                                                                         *)
(* Time is counted in ticks of the wall clock; a second is TicksPerSec     *)
(* ticks (datetime has sub-second resolution, while every duration the     *)
(* class receives is a whole number of seconds).  Timestamps (datetime)    *)
(* are tick counts, timedeltas are tick differences, `duration` is kept in *)
(* whole seconds as timedelta(seconds=int) builds it.  An Optional         *)
(* timestamp is None (<<>>) or Some(t) (<<t>>).                            *)
(*                                                                         *)
(* The clock never goes back.  Every method reads it where the code calls  *)
(* datetime.now(); evaluate is update(), _compute_state at the clock.      *)
(* lastOp, ret, pre, prevEval, drift, script and run record the calls made; *)
(* no method reads them.                                                   *)
(*                                                                         *)
(* CountdownGUI owns one CountdownTimer and drives it from Tk callbacks,   *)
(* which run one at a time on the main loop: _refresh (rescheduled every   *)
(* 100 ms) and the handlers of the buttons.  completed is its _completed   *)
(* flag; alarms and finishes count the _play_alarm calls and the times the *)
(* timer's finished flag went from false to true.                          *)
(***************************************************************************)
EXTENDS Integers, Sequences, FiniteSets, TLC

\* ---- bounds of the model ----
TicksPerSec == 2
MaxClock == 7
MaxSeconds == 2
MaxT0 == 3

\* ---- values ----
None == <<>>

Some(t) == <<t>>

Present(x) == x # None

Val(x) == x[1]

Max(a, b) == IF a >= b THEN a ELSE b

Min(a, b) == IF a <= b THEN a ELSE b

\* timedelta(seconds=s) as a tick difference
Seconds(s) == s * TicksPerSec

\* the integer arguments the callers pass (negative, zero, positive)
SecondsArgs == (0 - 1) .. MaxSeconds

VARIABLES
    duration,     \* self.duration, in whole seconds
    start_time,   \* self.start_time : Optional timestamp
    end_time,     \* self.end_time   : Optional timestamp
    paused,       \* self.paused
    pause_time,   \* self.pause_time : Optional timestamp
    finished,     \* self._finished
    clock,        \* datetime.now()
    lastOp,       \* the last method called, its argument and the time of the call
    ret,          \* what the last method returned
    pre,          \* the fields as they were when the last method was called
    prevEval,     \* the evaluate before the last one, when the last two calls were both evaluate
    drift,        \* observer of the run start; pause; resume; evaluate
    script,       \* observer of the reference run: how many of its calls were made
    run,          \* observer of the run since start(): seconds added, time spent not paused
    completed,    \* CountdownGUI._completed
    alarms,       \* the number of calls of CountdownGUI._play_alarm
    finishes      \* the number of times finished went from false to true under the GUI

vars == <<duration, start_time, end_time, paused, pause_time, finished,
          clock, lastOp, ret, pre, prevEval, drift, script, run,
          completed, alarms, finishes>>

gui == <<completed, alarms, finishes>>

timer == <<duration, start_time, end_time, paused, pause_time, finished>>

\* the six fields of the object, as one value
Fields ==
    [duration |-> duration, start_time |-> start_time, end_time |-> end_time,
     paused |-> paused, pause_time |-> pause_time, finished |-> finished]

\* The reference run: the calls, in order, with the time of each in
\* seconds after the start() (T0).
ReferenceRun ==
    << [op |-> "set_duration", arg |-> 5, at |-> 0],
       [op |-> "start",        arg |-> 0, at |-> 0],
       [op |-> "evaluate",     arg |-> 0, at |-> 2],
       [op |-> "pause",        arg |-> 0, at |-> 2],
       [op |-> "evaluate",     arg |-> 0, at |-> 10],
       [op |-> "resume",       arg |-> 0, at |-> 10],
       [op |-> "evaluate",     arg |-> 0, at |-> 12],
       [op |-> "evaluate",     arg |-> 0, at |-> 13] >>

NoScript == [n |-> 0, T0 |-> 0]

\* the call name(arg), made now, is the next call of the reference run
IsNextOfRun(name, arg) ==
    /\ script.n < Len(ReferenceRun)
    /\ ReferenceRun[script.n + 1].op = name
    /\ ReferenceRun[script.n + 1].arg = arg
    /\ script.n >= 2 => clock = script.T0 + Seconds(ReferenceRun[script.n + 1].at)

\* the observer of the reference run after the call name(arg)
ScriptAfter(name, arg) ==
    IF IsNextOfRun(name, arg)
    THEN [n |-> script.n + 1, T0 |-> IF name = "start" THEN clock ELSE script.T0]
    ELSE IF name = ReferenceRun[1].op /\ arg = ReferenceRun[1].arg
         THEN [n |-> 1, T0 |-> 0]
         ELSE NoScript

NoRun == [ok |-> FALSE, added |-> 0, active |-> 0]

\* The observer of the run since start() after the call name(arg) returning
\* r: the run begins at a start(), goes on through pause, resume, addTime,
\* evaluate and the queries, and is over at a reset(), a setDuration() or
\* once an evaluate has returned remaining = 0.
RunAfter(name, arg, r) ==
    IF name = "start" THEN [ok |-> TRUE, added |-> 0, active |-> 0]
    ELSE IF ~run.ok \/ name \in {"reset", "set_duration"} THEN NoRun
    ELSE IF name = "add_time" /\ arg > 0 THEN [run EXCEPT !.added = @ + arg]
    ELSE IF name = "evaluate" /\ r.remaining = 0 THEN NoRun
    ELSE run

\* the observer of the run after one tick of the clock: the tick counts
\* when the paused flag is false
RunAfterTick ==
    IF run.ok /\ ~paused THEN [run EXCEPT !.active = @ + 1] ELSE run

\* a call of method name with argument arg at the current time, returning r
Called(name, arg, r) ==
    /\ run' = RunAfter(name, arg, r)
    /\ UNCHANGED gui
    /\ script' = ScriptAfter(name, arg)
    /\ lastOp' = [op |-> name, arg |-> arg, at |-> clock]
    /\ ret' = r
    /\ pre' = Fields
    /\ prevEval' = IF name = "evaluate" /\ lastOp.op = "evaluate"
                   THEN Some([at |-> lastOp.at, snap |-> ret])
                   ELSE None

NoDrift == [phase |-> 0, T |-> 0, a |-> 0, b |-> 0, d |-> 0]

\* ---- CountdownTimer._compute_state ----
\* effective_now: a paused timer is evaluated at the moment it was paused
EffectiveNow_IgnoresPause(p, pt, now) == now

EffectiveNow(p, pt, now) == IF p /\ Present(pt) THEN Val(pt) ELSE now

\* the completion test on the raw remaining
IsDone_Strict(remaining) == remaining < 0

IsDone(remaining) == remaining <= 0

\* total_seconds = max(total.total_seconds(), 1), the divisor of the progress
ProgressDenominator_Unguarded(total) == total

ProgressDenominator(total) == Max(total, Seconds(1))

\* The snapshot and the two flags after _compute_state(reference = now) on a
\* timer whose fields are d, st, en, p, pt, f.
ComputeState(d, st, en, p, pt, f, now) ==
    IF ~Present(st) \/ ~Present(en)
    THEN LET total_seconds == Max(d, 0)
         IN  [snap |-> [remaining |-> Seconds(total_seconds),
                        progress  |-> [num |-> 0, den |-> 1],
                        total     |-> Seconds(total_seconds),
                        now       |-> now,
                        end       |-> now + Seconds(total_seconds)],
              finished |-> f,
              paused   |-> p]
    ELSE LET effective_now == EffectiveNow(p, pt, now)
             remaining0    == Val(en) - effective_now
             total         == Val(en) - Val(st)
             done          == IsDone(remaining0)
             remaining     == IF done THEN 0 ELSE remaining0
             elapsed       == total - remaining
             total_seconds == ProgressDenominator(total)
         IN  [snap |-> [remaining |-> remaining,
                        progress  |-> [num |-> Min(Max(elapsed, 0), total_seconds),
                                       den |-> total_seconds],
                        total     |-> total,
                        now       |-> effective_now,
                        end       |-> Val(en)],
              finished |-> IF done THEN TRUE ELSE f,
              paused   |-> IF done THEN TRUE ELSE p]

\* _compute_state(now) on a timer whose fields are the record t
ComputeStateOf(t, now) ==
    ComputeState(t.duration, t.start_time, t.end_time, t.paused, t.pause_time,
                 t.finished, now)

\* the remaining that evaluate(now) returns on a timer whose fields are t
RemainingOf(t, now) == ComputeStateOf(t, now).snap.remaining

\* the remaining that evaluate(t2) returns after an evaluate(t1) on fields t
RemainingAfterEval(t, t1, t2) ==
    LET r == ComputeStateOf(t, t1)
    IN  RemainingOf([t EXCEPT !.paused = r.paused, !.finished = r.finished], t2)

\* is_running on a timer whose fields are t
IsRunningOf(t) == Present(t.start_time) /\ ~t.paused /\ ~t.finished

\* CountdownTimer.is_running
is_running == IsRunningOf(Fields)

\* CountdownTimer.has_finished
has_finished == finished

\* ---- initial state: CountdownTimer() ----
Init ==
    /\ duration = 0
    /\ start_time = None
    /\ end_time = None
    /\ paused = TRUE
    /\ pause_time = None
    /\ finished = FALSE
    /\ clock = 0
    /\ lastOp = [op |-> "init", arg |-> 0, at |-> 0]
    /\ ret = None
    /\ pre = Fields
    /\ prevEval = None
    /\ drift = NoDrift
    /\ script = NoScript
    /\ run = NoRun
    /\ completed = FALSE
    /\ alarms = 0
    /\ finishes = 0

\* ---- the clock ----
Tick ==
    /\ clock < MaxClock
    /\ clock' = clock + 1
    /\ run' = RunAfterTick
    /\ UNCHANGED <<timer, lastOp, ret, pre, prevEval, drift, script, gui>>

\* ---- CountdownTimer.reset ----
ResetFields_KeepsFinished ==
    /\ paused' = TRUE
    /\ pause_time' = None
    /\ start_time' = None
    /\ end_time' = None
    /\ finished' = finished

ResetFields_KeepsEnd ==
    /\ paused' = TRUE
    /\ pause_time' = None
    /\ start_time' = None
    /\ end_time' = end_time
    /\ finished' = FALSE

ResetFields ==
    /\ paused' = TRUE
    /\ pause_time' = None
    /\ start_time' = None
    /\ end_time' = None
    /\ finished' = FALSE

Reset ==
    /\ ResetFields
    /\ Called("reset", 0, None)
    /\ drift' = NoDrift
    /\ UNCHANGED <<duration, clock>>

\* ---- CountdownTimer.set_duration ----
NewDuration_Unclamped(seconds) == seconds

NewDuration(seconds) == Max(0, seconds)

SetDuration_NoReset(seconds) ==
    /\ duration' = NewDuration(seconds)
    /\ Called("set_duration", seconds, None)
    /\ drift' = NoDrift
    /\ UNCHANGED <<start_time, end_time, paused, pause_time, finished, clock>>

SetDuration(seconds) ==
    /\ duration' = NewDuration(seconds)
    /\ ResetFields
    /\ Called("set_duration", seconds, None)
    /\ drift' = NoDrift
    /\ UNCHANGED clock

\* ---- CountdownTimer.start ----
Start_KeepsPause ==
    /\ start_time' = Some(clock)
    /\ end_time' = Some(clock + Seconds(duration))
    /\ paused' = FALSE
    /\ finished' = FALSE
    /\ Called("start", 0, None)
    /\ drift' = [phase |-> 1, T |-> clock, a |-> 0, b |-> 0, d |-> duration]
    /\ UNCHANGED <<duration, pause_time, clock>>

Start ==
    /\ start_time' = Some(clock)
    /\ end_time' = Some(clock + Seconds(duration))
    /\ paused' = FALSE
    /\ pause_time' = None
    /\ finished' = FALSE
    /\ Called("start", 0, None)
    /\ drift' = [phase |-> 1, T |-> clock, a |-> 0, b |-> 0, d |-> duration]
    /\ UNCHANGED <<duration, clock>>

\* ---- CountdownTimer.pause ----
CanPause_Unguarded(st, p) == TRUE

CanPause(st, p) == Present(st) /\ ~p

Pause ==
    /\ IF CanPause(start_time, paused)
       THEN /\ paused' = TRUE
            /\ pause_time' = Some(clock)
       ELSE UNCHANGED <<paused, pause_time>>
    /\ Called("pause", 0, None)
    /\ drift' = IF drift.phase = 1
                THEN [drift EXCEPT !.phase = 2, !.a = clock - drift.T]
                ELSE NoDrift
    /\ UNCHANGED <<duration, start_time, end_time, finished, clock>>

\* ---- CountdownTimer.resume ----
CanResume_IgnoresStart(st, p) == p

CanResume(st, p) == Present(st) /\ p

\* paused_delta = now - self.pause_time
PausedDelta_Zero(now, pt) == 0

PausedDelta(now, pt) == now - Val(pt)

Resume_ClearsFinished ==
    /\ IF CanResume(start_time, paused)
       THEN /\ IF Present(pause_time) /\ Present(end_time) /\ Present(start_time)
               THEN LET paused_delta == PausedDelta(clock, pause_time)
                    IN  /\ start_time' = Some(Val(start_time) + paused_delta)
                        /\ end_time' = Some(Val(end_time) + paused_delta)
               ELSE UNCHANGED <<start_time, end_time>>
            /\ paused' = FALSE
            /\ pause_time' = None
            /\ finished' = FALSE
       ELSE UNCHANGED <<start_time, end_time, paused, pause_time, finished>>
    /\ Called("resume", 0, None)
    /\ drift' = IF drift.phase = 2
                THEN [drift EXCEPT !.phase = 3, !.b = clock - drift.T - drift.a]
                ELSE NoDrift
    /\ UNCHANGED <<duration, clock>>

Resume ==
    /\ IF CanResume(start_time, paused)
       THEN /\ IF Present(pause_time) /\ Present(end_time) /\ Present(start_time)
               THEN LET paused_delta == PausedDelta(clock, pause_time)
                    IN  /\ start_time' = Some(Val(start_time) + paused_delta)
                        /\ end_time' = Some(Val(end_time) + paused_delta)
               ELSE UNCHANGED <<start_time, end_time>>
            /\ paused' = FALSE
            /\ pause_time' = None
       ELSE UNCHANGED <<start_time, end_time, paused, pause_time>>
    /\ Called("resume", 0, None)
    /\ drift' = IF drift.phase = 2
                THEN [drift EXCEPT !.phase = 3, !.b = clock - drift.T - drift.a]
                ELSE NoDrift
    /\ UNCHANGED <<duration, finished, clock>>

\* ---- CountdownTimer.add_time ----
AddTimeFinished_Keeps(f, seconds) == f

AddTimeFinished_AlwaysClears(f, seconds) == FALSE

AddTimeFinished(f, seconds) == IF seconds <= 0 THEN f ELSE FALSE

\* self.end_time += timedelta(seconds=seconds)
ExtendDeadline_Ticks(en, seconds) == Some(Val(en) + seconds)

ExtendDeadline(en, seconds) == Some(Val(en) + Seconds(seconds))

\* self.duration += timedelta(seconds=seconds)
ExtendDuration_Replaces(d, seconds) == seconds

ExtendDuration(d, seconds) == d + seconds

AddTime_ExtendsBoth(seconds) ==
    /\ IF seconds <= 0
       THEN UNCHANGED <<duration, end_time>>
       ELSE IF Present(start_time) /\ Present(end_time)
            THEN /\ Val(end_time) + Seconds(seconds) <= MaxClock + Seconds(MaxSeconds)
                 /\ end_time' = ExtendDeadline(end_time, seconds)
                 /\ duration' = ExtendDuration(duration, seconds)
            ELSE /\ duration + seconds <= MaxSeconds
                 /\ duration' = ExtendDuration(duration, seconds)
                 /\ UNCHANGED end_time
    /\ finished' = AddTimeFinished(finished, seconds)
    /\ Called("add_time", seconds, None)
    /\ drift' = NoDrift
    /\ UNCHANGED <<start_time, paused, pause_time, clock>>

AddTime(seconds) ==
    /\ IF seconds <= 0
       THEN UNCHANGED <<duration, end_time>>
       ELSE IF Present(start_time) /\ Present(end_time)
            THEN /\ Val(end_time) + Seconds(seconds) <= MaxClock + Seconds(MaxSeconds)
                 /\ end_time' = ExtendDeadline(end_time, seconds)
                 /\ UNCHANGED duration
            ELSE /\ duration + seconds <= MaxSeconds
                 /\ duration' = ExtendDuration(duration, seconds)
                 /\ UNCHANGED end_time
    /\ finished' = AddTimeFinished(finished, seconds)
    /\ Called("add_time", seconds, None)
    /\ drift' = NoDrift
    /\ UNCHANGED <<start_time, paused, pause_time, clock>>

\* ---- CountdownTimer.update / _compute_state(None) ----
Evaluate_ClearsPauseTime ==
    LET r == ComputeState(duration, start_time, end_time, paused, pause_time,
                          finished, clock)
    IN  /\ finished' = r.finished
        /\ paused' = r.paused
        /\ pause_time' = IF r.finished THEN None ELSE pause_time
        /\ Called("evaluate", 0, r.snap)
        /\ drift' = IF drift.phase = 3 /\ clock = drift.T + drift.a + drift.b
                    THEN [drift EXCEPT !.phase = 4]
                    ELSE NoDrift
        /\ UNCHANGED <<duration, start_time, end_time, clock>>

Evaluate ==
    LET r == ComputeState(duration, start_time, end_time, paused, pause_time,
                          finished, clock)
    IN  /\ finished' = r.finished
        /\ paused' = r.paused
        /\ Called("evaluate", 0, r.snap)
        /\ drift' = IF drift.phase = 3 /\ clock = drift.T + drift.a + drift.b
                    THEN [drift EXCEPT !.phase = 4]
                    ELSE NoDrift
        /\ UNCHANGED <<duration, start_time, end_time, pause_time, clock>>

\* ---- the two boolean queries ----
IsRunning ==
    /\ Called("is_running", 0, is_running)
    /\ drift' = NoDrift
    /\ UNCHANGED <<timer, clock>>

HasFinished ==
    /\ Called("has_finished", 0, has_finished)
    /\ drift' = NoDrift
    /\ UNCHANGED <<timer, clock>>

Next ==
    \/ Tick
    \/ Reset
    \/ \E seconds \in SecondsArgs : SetDuration(seconds)
    \/ Start
    \/ Pause
    \/ Resume
    \/ \E seconds \in SecondsArgs : AddTime(seconds)
    \/ Evaluate
    \/ IsRunning
    \/ HasFinished

Spec == Init /\ [][Next]_vars

\* ---- the reference run, on a clock that reaches T0 + 13 s ----
RunTick ==
    /\ clock < MaxT0 + Seconds(ReferenceRun[Len(ReferenceRun)].at)
    /\ clock' = clock + 1
    /\ run' = RunAfterTick
    /\ UNCHANGED <<timer, lastOp, ret, pre, prevEval, drift, script, gui>>

RunSetDuration ==
    /\ IsNextOfRun("set_duration", ReferenceRun[1].arg)
    /\ SetDuration(ReferenceRun[1].arg)

RunStart ==
    /\ IsNextOfRun("start", 0)
    /\ clock <= MaxT0
    /\ Start

RunEvaluate ==
    /\ IsNextOfRun("evaluate", 0)
    /\ Evaluate

RunPause ==
    /\ IsNextOfRun("pause", 0)
    /\ Pause

RunResume ==
    /\ IsNextOfRun("resume", 0)
    /\ Resume

RunNext ==
    \/ RunTick
    \/ RunSetDuration
    \/ RunStart
    \/ RunEvaluate
    \/ RunPause
    \/ RunResume

SpecRun == Init /\ [][RunNext]_vars

\* ---- the methods of CountdownTimer as functions of the fields ----
\* (CountdownGUI calls several of them in one callback)
\* start() at now
StartOf(t, now) ==
    [t EXCEPT !.start_time = Some(now),
              !.end_time = Some(now + Seconds(t.duration)),
              !.paused = FALSE,
              !.pause_time = None,
              !.finished = FALSE]

\* reset()
ResetOf(t) ==
    [t EXCEPT !.paused = TRUE,
              !.pause_time = None,
              !.start_time = None,
              !.end_time = None,
              !.finished = FALSE]

\* set_duration(seconds)
SetDurationOf(t, seconds) ==
    ResetOf([t EXCEPT !.duration = NewDuration(seconds)])

\* pause() at now
PauseOf(t, now) ==
    IF CanPause(t.start_time, t.paused)
    THEN [t EXCEPT !.paused = TRUE, !.pause_time = Some(now)]
    ELSE t

\* resume() at now
ResumeOf(t, now) ==
    IF CanResume(t.start_time, t.paused)
    THEN LET shifted ==
                 IF Present(t.pause_time) /\ Present(t.end_time) /\ Present(t.start_time)
                 THEN LET paused_delta == PausedDelta(now, t.pause_time)
                      IN  [t EXCEPT !.start_time = Some(Val(@) + paused_delta),
                                    !.end_time = Some(Val(@) + paused_delta)]
                 ELSE t
         IN  [shifted EXCEPT !.paused = FALSE, !.pause_time = None]
    ELSE t

\* add_time(seconds)
AddTimeOf(t, seconds) ==
    IF seconds <= 0
    THEN t
    ELSE LET extended ==
                 IF Present(t.start_time) /\ Present(t.end_time)
                 THEN [t EXCEPT !.end_time = ExtendDeadline(@, seconds)]
                 ELSE [t EXCEPT !.duration = ExtendDuration(@, seconds)]
         IN  [extended EXCEPT !.finished = AddTimeFinished(@, seconds)]

\* update() at now: the fields it leaves
UpdateOf_Pure(t, now) == t

UpdateOf(t, now) ==
    LET r == ComputeStateOf(t, now)
    IN  [t EXCEPT !.paused = r.paused, !.finished = r.finished]

\* each method, written as a function, does what its action does
MethodsAgree ==
    /\ lastOp.op = "start" => Fields = StartOf(pre, lastOp.at)
    /\ lastOp.op = "reset" => Fields = ResetOf(pre)
    /\ lastOp.op = "set_duration" => Fields = SetDurationOf(pre, lastOp.arg)
    /\ lastOp.op = "pause" => Fields = PauseOf(pre, lastOp.at)
    /\ lastOp.op = "resume" => Fields = ResumeOf(pre, lastOp.at)
    /\ lastOp.op = "add_time" => Fields = AddTimeOf(pre, lastOp.arg)
    /\ lastOp.op = "evaluate" => Fields = UpdateOf(pre, lastOp.at)

\* ---- CountdownGUI ----
\* what TimeInput.get_seconds returns: never negative
InputSeconds == 0 .. MaxSeconds

\* A callback of the GUI, name, run at the current time with input arg,
\* leaving the timer's fields as t.
Handled(name, arg, t) ==
    /\ duration' = t.duration
    /\ start_time' = t.start_time
    /\ end_time' = t.end_time
    /\ paused' = t.paused
    /\ pause_time' = t.pause_time
    /\ finished' = t.finished
    /\ finishes' = finishes + (IF ~finished /\ t.finished THEN 1 ELSE 0)
    /\ lastOp' = [op |-> name, arg |-> arg, at |-> clock]
    /\ ret' = None
    /\ pre' = Fields
    /\ prevEval' = None
    /\ drift' = NoDrift
    /\ script' = NoScript
    /\ run' = NoRun
    /\ UNCHANGED clock

\* CountdownGUI._handle_completion, _play_alarm included
handle_completion_NoDebounce ==
    /\ completed' = TRUE
    /\ alarms' = alarms + 1

handle_completion ==
    IF completed
    THEN UNCHANGED <<completed, alarms>>
    ELSE /\ completed' = TRUE
         /\ alarms' = alarms + 1

\* CountdownGUI._refresh, the poll that Tk runs every 100 ms
refresh ==
    LET t == UpdateOf(Fields, clock)
    IN  /\ Handled("_refresh", 0, t)
        /\ IF t.finished
           THEN handle_completion
           ELSE UNCHANGED <<completed, alarms>>

\* the body of CountdownGUI.start_timer, reached through the callback name
StartTimerAs_NoCheck(name, seconds) ==
    /\ clock + Seconds(seconds) <= MaxClock
    /\ Handled(name, seconds, StartOf(SetDurationOf(Fields, seconds), clock))
    /\ completed' = FALSE
    /\ UNCHANGED alarms

StartTimerAs(name, seconds) ==
    IF seconds <= 0
    THEN /\ Handled(name, seconds, Fields)
         /\ UNCHANGED <<completed, alarms>>
    ELSE /\ clock + Seconds(seconds) <= MaxClock
         /\ Handled(name, seconds, StartOf(SetDurationOf(Fields, seconds), clock))
         /\ completed' = FALSE
         /\ UNCHANGED alarms

\* CountdownGUI.start_timer, the duration input holding seconds
start_timer(seconds) == StartTimerAs("start_timer", seconds)

\* CountdownGUI.toggle_pause
toggle_pause(seconds) ==
    IF has_finished \/ ~Present(start_time)
    THEN StartTimerAs("toggle_pause", seconds)
    ELSE LET t == IF paused THEN ResumeOf(Fields, clock) ELSE PauseOf(Fields, clock)
         IN  /\ Val(t.end_time) <= MaxClock
             /\ Handled("toggle_pause", seconds, t)
             /\ UNCHANGED <<completed, alarms>>

\* CountdownGUI.reset_timer
reset_timer ==
    /\ Handled("reset_timer", 0, ResetOf(Fields))
    /\ completed' = FALSE
    /\ UNCHANGED alarms

\* CountdownGUI.add_time, the add input holding seconds
add_time(seconds) ==
    IF seconds <= 0
    THEN /\ Handled("gui_add_time", seconds, Fields)
         /\ UNCHANGED <<completed, alarms>>
    ELSE /\ IF Present(start_time) /\ Present(end_time)
            THEN Val(end_time) + Seconds(seconds) <= MaxClock
            ELSE duration + seconds <= MaxSeconds
         /\ Handled("gui_add_time", seconds, AddTimeOf(Fields, seconds))
         /\ completed' = FALSE
         /\ UNCHANGED alarms

GuiNext ==
    \/ Tick
    \/ refresh
    \/ \E seconds \in InputSeconds : start_timer(seconds)
    \/ \E seconds \in InputSeconds : toggle_pause(seconds)
    \/ reset_timer
    \/ \E seconds \in InputSeconds : add_time(seconds)

SpecGUI == Init /\ [][GuiNext]_vars

\* the main loop: time passes, and _refresh, which reschedules itself at
\* its end, runs again and again
SpecPolling == SpecGUI /\ WF_vars(Tick) /\ WF_vars(refresh)

\* ---- the claims ----
\* the times at which a later evaluate can be called
LaterTimes == clock .. MaxClock

Started(t) == Present(t.start_time) /\ Present(t.end_time)

\* C1 (as stated): after start() at T, pause() at T+a, resume() at T+a+b and
\* evaluate(T+a+b), the remaining returned is d - a, for every a and b.
C1_DriftAsStated ==
    drift.phase = 4 => ret.remaining = Seconds(drift.d) - drift.a

\* C1 (amended): after start() at T, pause() at T+a, resume() at T+a+b and
\* evaluate(T+a+b), the remaining returned is max(0, d - a), whatever b is:
\* the time spent paused never counts, and the remaining is clamped at zero
\* when the pause came after the deadline.
C1_Drift ==
    drift.phase = 4 => ret.remaining = Max(0, Seconds(drift.d) - drift.a)

C1_Witness ==
    /\ drift.phase = 4
    /\ drift.a > 0
    /\ drift.b > 0
    /\ ret.remaining > 0
    /\ lastOp.op = "evaluate"

\* C2 (as stated): on a started timer whose paused flag is true, an evaluate
\* that follows another evaluate (at a later time, nothing else called in
\* between) returns the same remaining.
C2_FrozenAsStated ==
    [][(/\ lastOp.op = "evaluate"
        /\ Started(Fields)
        /\ paused
        /\ lastOp'.op = "evaluate"
        /\ clock' = clock
        /\ lastOp.at < clock)
       => ret'.remaining = ret.remaining]_vars

\* C2 (amended): on a started timer whose paused flag is true and whose
\* pauseTime is present or whose finished flag is true, an evaluate that
\* follows another evaluate at a later time returns the same remaining.
C2_Frozen ==
    [][(/\ lastOp.op = "evaluate"
        /\ Started(Fields)
        /\ paused
        /\ (Present(pause_time) \/ finished)
        /\ lastOp'.op = "evaluate"
        /\ clock' = clock
        /\ lastOp.at < clock)
       => ret'.remaining = ret.remaining]_vars

C2_Witness ==
    /\ lastOp.op = "evaluate"
    /\ Present(prevEval)
    /\ Val(prevEval).at < lastOp.at
    /\ Started(Fields)
    /\ paused
    /\ Present(pause_time)
    /\ ~finished
    /\ ret.remaining > 0
    /\ Val(prevEval).snap.remaining = ret.remaining

\* C3 (as stated): on a started timer, an evaluate(now) with now at or after
\* endTime returns remaining = 0 and leaves finished = true.
C3_CompletionAsStated ==
    (/\ lastOp.op = "evaluate"
     /\ Started(pre)
     /\ lastOp.at >= Val(pre.end_time))
    => (ret.remaining = 0 /\ finished)

\* C3 (amended): on a started timer, an evaluate(now) whose effective now
\* (pauseTime when paused with pauseTime present, otherwise now) is at or
\* after endTime returns remaining = 0 and leaves finished = true.
C3_Completion ==
    (/\ lastOp.op = "evaluate"
     /\ Started(pre)
     /\ EffectiveNow(pre.paused, pre.pause_time, lastOp.at) >= Val(pre.end_time))
    => (ret.remaining = 0 /\ finished)

C3_Witness ==
    /\ lastOp.op = "evaluate"
    /\ Started(pre)
    /\ ~pre.finished
    /\ lastOp.at = Val(pre.end_time)
    /\ Val(pre.end_time) > Val(pre.start_time)
    /\ finished
    /\ ret.remaining = 0

\* C4: once finished is true, every step that is not start, reset,
\* setDuration or addTime (so a pause, a resume, an evaluate, a query or the
\* passing of time) leaves finished true, and every evaluate among them
\* returns remaining = 0.
C4_Monotonic ==
    [][(/\ finished
        /\ lastOp'.op \notin {"start", "reset", "set_duration", "add_time"})
       => (/\ finished'
           /\ (lastOp'.op = "evaluate" /\ clock' = clock) => ret'.remaining = 0)]_vars

C4_Witness ==
    /\ lastOp.op = "evaluate"
    /\ pre.finished
    /\ ~pre.paused
    /\ finished
    /\ ret.remaining = 0
    /\ Val(end_time) > Val(start_time)

\* C5 (as stated): after addTime(s), s > 0, on a running timer, evaluate(now)
\* returns exactly s more than it would have returned without the addTime,
\* for every now.
C5_AddRunningAsStated ==
    (/\ lastOp.op = "add_time"
     /\ lastOp.arg > 0
     /\ IsRunningOf(pre))
    => \A now \in LaterTimes :
          RemainingOf(Fields, now) = RemainingOf(pre, now) + Seconds(lastOp.arg)

\* C5 (amended): after addTime(s), s > 0, on a running timer, evaluate(now)
\* returns max(0, endTime + s - now), endTime being the deadline before the
\* addTime; that is exactly s more than it would have returned without the
\* addTime for every now at or before that deadline.
C5_AddRunning ==
    (/\ lastOp.op = "add_time"
     /\ lastOp.arg > 0
     /\ IsRunningOf(pre))
    => \A now \in LaterTimes :
          /\ RemainingOf(Fields, now)
               = Max(0, Val(pre.end_time) + Seconds(lastOp.arg) - now)
          /\ now <= Val(pre.end_time)
               => RemainingOf(Fields, now)
                    = RemainingOf(pre, now) + Seconds(lastOp.arg)

C5_Witness ==
    /\ lastOp.op = "add_time"
    /\ lastOp.arg > 0
    /\ IsRunningOf(pre)
    /\ clock < Val(pre.end_time)
    /\ clock > Val(pre.start_time)
    /\ RemainingOf(Fields, clock) = RemainingOf(pre, clock) + Seconds(lastOp.arg)

\* the last call was addTime(s) with s > 0 on a Done timer (finished true)
AddedOnDone ==
    /\ lastOp.op = "add_time"
    /\ lastOp.arg > 0
    /\ pre.finished

\* C6 (as stated): after addTime(s), s > 0, on a Done timer, finished is
\* false, paused is as it was, and two evaluates at increasing times return
\* the same remaining (the timer does not count down) as long as neither
\* resume() nor start() is called.
C6_AddOnDoneAsStated ==
    AddedOnDone
    => /\ ~finished
       /\ paused = pre.paused
       /\ \A t1 \in LaterTimes : \A t2 \in LaterTimes :
             t1 < t2 => RemainingAfterEval(Fields, t1, t2) = RemainingOf(Fields, t1)

\* C6 (amended): after addTime(s), s > 0, on a Done timer, finished is false
\* and paused is as it was; the remaining is frozen (two evaluates at
\* increasing times return the same value) only when paused is true and
\* pauseTime is present; when pauseTime is absent the timer counts down
\* again at once, evaluate(now) returning max(0, endTime - now).
C6_AddOnDone ==
    AddedOnDone
    => /\ ~finished
       /\ paused = pre.paused
       /\ (paused /\ Present(pause_time))
            => \A t1 \in LaterTimes : \A t2 \in LaterTimes :
                  t1 < t2 => RemainingAfterEval(Fields, t1, t2) = RemainingOf(Fields, t1)
       /\ ~Present(pause_time)
            => \A t1 \in LaterTimes : \A t2 \in LaterTimes :
                  t1 < t2 => /\ RemainingOf(Fields, t1) = Max(0, Val(end_time) - t1)
                             /\ RemainingAfterEval(Fields, t1, t2) = Max(0, Val(end_time) - t2)

C6_Witness ==
    /\ AddedOnDone
    /\ paused
    /\ ~Present(pause_time)
    /\ clock < MaxClock
    /\ RemainingOf(Fields, clock) > RemainingAfterEval(Fields, clock, clock + 1)

\* C7 (as stated): after addTime(s), s > 0, on a started Done timer, the next
\* evaluate(now) returns remaining > 0 and does not set finished, for every
\* now from the current time on.
C7_NextEvalAsStated ==
    (AddedOnDone /\ Started(pre))
    => \A now \in LaterTimes :
          /\ RemainingOf(Fields, now) > 0
          /\ ~ComputeStateOf(Fields, now).finished

\* C7 (amended): after addTime(s), s > 0, on a started Done timer, the next
\* evaluate(now) returns max(0, endTime + s - effectiveNow), endTime being
\* the deadline before the addTime; it returns remaining > 0 and leaves
\* finished false exactly when effectiveNow < endTime + s, and otherwise
\* returns 0 and sets finished again.
C7_NextEval ==
    (AddedOnDone /\ Started(pre))
    => \A now \in LaterTimes :
          LET r        == ComputeStateOf(Fields, now)
              deadline == Val(pre.end_time) + Seconds(lastOp.arg)
              eff      == EffectiveNow(paused, pause_time, now)
          IN  /\ r.snap.remaining = Max(0, deadline - eff)
              /\ (r.snap.remaining > 0 /\ ~r.finished) <=> eff < deadline
              /\ (r.snap.remaining = 0 /\ r.finished) <=> eff >= deadline

C7_Witness ==
    /\ AddedOnDone
    /\ Started(pre)
    /\ clock > Val(pre.end_time)
    /\ RemainingOf(Fields, clock) > 0
    /\ ~ComputeStateOf(Fields, clock).finished

\* C8: whenever pauseTime is present, paused is true and startTime is present.
C8_PauseTimeImplies ==
    Present(pause_time) => (paused /\ Present(start_time))

C8_Witness ==
    /\ Present(pause_time)
    /\ lastOp.op = "pause"
    /\ ~pre.paused
    /\ paused
    /\ Present(start_time)

\* C9: whenever startTime and endTime are both present, endTime >= startTime.
C9_EndAfterStart ==
    (Present(start_time) /\ Present(end_time)) => Val(end_time) >= Val(start_time)

C9_Witness ==
    /\ lastOp.op = "resume"
    /\ Present(pre.pause_time)
    /\ Val(start_time) > Val(pre.start_time)
    /\ Val(end_time) > Val(start_time)

\* C10: finished goes from false to true only in an evaluate that computed
\* remaining <= 0 on a started timer, and finished is false right after every
\* setDuration, reset and start and every addTime with seconds > 0.
C10_FinishedOnlyByEvaluate ==
    /\ (finished /\ ~pre.finished)
         => /\ lastOp.op = "evaluate"
            /\ Started(pre)
            /\ Val(pre.end_time)
                 - EffectiveNow(pre.paused, pre.pause_time, lastOp.at) <= 0
            /\ ret.remaining = 0
    /\ (\/ lastOp.op \in {"set_duration", "reset", "start"}
        \/ (lastOp.op = "add_time" /\ lastOp.arg > 0))
         => ~finished

C10_Witness ==
    /\ finished
    /\ ~pre.finished
    /\ lastOp.op = "evaluate"
    /\ ret.remaining = 0

\* C11 (as stated): whenever finished is true, paused is true and pauseTime
\* is absent.
C11_DoneShapeAsStated ==
    finished => (paused /\ ~Present(pause_time))

\* C11 (amended): an evaluate that leaves finished true leaves paused true,
\* and leaves pauseTime absent when the timer was not paused before it;
\* finished with paused false arises only from resume() on a finished timer,
\* and finished with pauseTime present only from a timer that was paused
\* (pause() taking effect at or after the deadline, or after such a resume())
\* before the call.
C11_DoneShape ==
    /\ (lastOp.op = "evaluate" /\ finished)
         => /\ paused
            /\ pause_time = pre.pause_time
            /\ ~pre.paused => ~Present(pause_time)
    /\ (finished /\ ~paused)
         => /\ pre.finished
            /\ lastOp.op = "resume" \/ ~pre.paused
    /\ (finished /\ Present(pause_time))
         => \/ Present(pre.pause_time)
            \/ (lastOp.op = "pause" /\ ~pre.paused)

C11_Witness ==
    /\ lastOp.op = "evaluate"
    /\ finished
    /\ ~pre.finished
    /\ ~pre.paused
    /\ paused
    /\ ~Present(pause_time)
    /\ Val(end_time) > Val(start_time)

\* the four logical states of the timer whose fields are t
IsIdle(t) == ~Present(t.start_time)

IsRunningState(t) == Present(t.start_time) /\ ~t.paused /\ ~t.finished

IsPausedState(t) ==
    Present(t.start_time) /\ t.paused /\ ~t.finished /\ Present(t.pause_time)

IsDoneState(t) == t.finished /\ t.paused /\ ~Present(t.pause_time)

\* how many of the four logical states the fields t are in
StateCount(t) ==
    Cardinality({s \in {"Idle", "Running", "Paused", "Done"} :
                    \/ s = "Idle" /\ IsIdle(t)
                    \/ s = "Running" /\ IsRunningState(t)
                    \/ s = "Paused" /\ IsPausedState(t)
                    \/ s = "Done" /\ IsDoneState(t)})

\* C12 (as stated): every reachable state is exactly one of Idle, Running,
\* Paused and Done.
C12_FourStatesAsStated == StateCount(Fields) = 1

\* C12 (amended): no reachable state is more than one of Idle, Running,
\* Paused and Done, and a state that is none of them is entered from one of
\* the four only by resume() on a Done timer (finished, paused false), by an
\* evaluate on a Paused timer whose pauseTime is at or after endTime
\* (finished, pauseTime present), or by addTime(s > 0) on a Done timer
\* (started, paused, not finished, pauseTime absent).
C12_FourStates ==
    /\ StateCount(Fields) <= 1
    /\ (StateCount(pre) = 1 /\ StateCount(Fields) = 0)
         => \/ /\ lastOp.op = "resume"
               /\ IsDoneState(pre)
               /\ finished /\ ~paused
            \/ /\ lastOp.op = "evaluate"
               /\ IsPausedState(pre)
               /\ Val(pre.pause_time) >= Val(pre.end_time)
               /\ finished /\ paused /\ Present(pause_time)
            \/ /\ lastOp.op = "add_time" /\ lastOp.arg > 0
               /\ IsDoneState(pre)
               /\ Present(start_time) /\ paused /\ ~finished /\ ~Present(pause_time)

C12_Witness ==
    /\ StateCount(pre) = 1
    /\ StateCount(Fields) = 0
    /\ lastOp.op = "evaluate"
    /\ IsPausedState(pre)

\* C13: the progress an evaluate returns is a fraction within [0, 1] (its
\* divisor is positive and its dividend lies between 0 and the divisor),
\* also on a started timer whose total (endTime - startTime) is zero.
C13_ProgressInRange ==
    lastOp.op = "evaluate"
    => /\ ret.progress.den > 0
       /\ 0 <= ret.progress.num
       /\ ret.progress.num <= ret.progress.den

C13_Witness ==
    /\ lastOp.op = "evaluate"
    /\ Started(pre)
    /\ ret.total = 0
    /\ ret.progress.den > 0
    /\ ret.progress.num = 0

\* C14: in the reference run setDuration(5); start() at T0; evaluate(T0+2);
\* pause() at T0+2; evaluate(T0+10); resume() at T0+10; evaluate(T0+12);
\* evaluate(T0+13), the four evaluates return remaining 3 s with progress
\* 2/5, remaining 3 s, remaining 1 s with progress 4/5, and remaining 0 with
\* finished true.
C14_ReferenceRun ==
    /\ script.n = 3
         => /\ ret.remaining = Seconds(3)
            /\ ret.progress.num * 5 = ret.progress.den * 2
    /\ script.n = 5
         => ret.remaining = Seconds(3)
    /\ script.n = 7
         => /\ ret.remaining = Seconds(1)
            /\ ret.progress.num * 5 = ret.progress.den * 4
    /\ script.n = 8
         => /\ ret.remaining = 0
            /\ finished

C14_Witness ==
    /\ script.n = 8
    /\ script.T0 > 0
    /\ lastOp.op = "evaluate"
    /\ clock = script.T0 + Seconds(13)
    /\ ret.remaining = 0
    /\ finished

\* the last call was setDuration(d) with d >= 0
SetNonNegative ==
    /\ lastOp.op = "set_duration"
    /\ lastOp.arg >= 0

\* C15: after setDuration(d), d >= 0, from any state, an evaluate(now) made
\* before any start() returns remaining = d, progress = 0 and end = now + d,
\* and leaves finished false, for every now.
C15_SetThenEvaluate ==
    SetNonNegative
    => \A now \in LaterTimes :
          LET r == ComputeStateOf(Fields, now)
          IN  /\ r.snap.remaining = Seconds(lastOp.arg)
              /\ r.snap.progress.num = 0
              /\ r.snap.progress.den > 0
              /\ r.snap.end = now + Seconds(lastOp.arg)
              /\ ~r.finished
              /\ ~finished

C15_Witness ==
    /\ SetNonNegative
    /\ lastOp.arg > 0
    /\ Started(pre)
    /\ pre.finished
    /\ pre.duration # lastOp.arg
    /\ clock < MaxClock
    /\ RemainingOf(Fields, clock + 1) = Seconds(lastOp.arg)

\* the last call was addTime(s) with s > 0 on a timer without startTime
AddedOnIdle ==
    /\ lastOp.op = "add_time"
    /\ lastOp.arg > 0
    /\ ~Present(pre.start_time)

\* C16: addTime(s), s > 0, on a never-started or reset timer increases
\* configuredDuration by exactly s, makes the idle evaluate return exactly s
\* more than before, for every now, and leaves startTime and endTime absent.
C16_AddIdle ==
    AddedOnIdle
    => /\ duration = pre.duration + lastOp.arg
       /\ ~Present(start_time)
       /\ ~Present(end_time)
       /\ \A now \in LaterTimes :
             RemainingOf(Fields, now) = RemainingOf(pre, now) + Seconds(lastOp.arg)

C16_Witness ==
    /\ AddedOnIdle
    /\ pre.duration > 0
    /\ duration = pre.duration + lastOp.arg
    /\ RemainingOf(Fields, clock) = Seconds(pre.duration) + Seconds(lastOp.arg)

\* the last call was one whose precondition did not hold
WasNoOp ==
    \/ /\ lastOp.op = "pause"
       /\ ~Present(pre.start_time) \/ pre.paused
    \/ /\ lastOp.op = "resume"
       /\ ~Present(pre.start_time) \/ ~pre.paused
    \/ /\ lastOp.op = "add_time"
       /\ lastOp.arg <= 0

\* C17: pause() when startTime is absent or paused is already true, resume()
\* when startTime is absent or paused is false, and addTime(s) with s <= 0
\* leave every field as it was (a second pause() does not move pauseTime,
\* addTime(s <= 0) leaves finished as it was).
C17_NoOps == WasNoOp => Fields = pre

C17_Witness ==
    /\ lastOp.op = "pause"
    /\ pre.paused
    /\ Present(pre.pause_time)
    /\ lastOp.at > Val(pre.pause_time)
    /\ Fields = pre

\* C18: start() from any state sets startTime = now, endTime = now +
\* configuredDuration, paused = false, pauseTime absent and finished = false,
\* and an evaluate at that same instant returns remaining =
\* configuredDuration and progress = 0.
C18_Restart ==
    lastOp.op = "start"
    => /\ start_time = Some(lastOp.at)
       /\ end_time = Some(lastOp.at + Seconds(duration))
       /\ duration = pre.duration
       /\ ~paused
       /\ ~Present(pause_time)
       /\ ~finished
       /\ LET r == ComputeStateOf(Fields, lastOp.at)
          IN  /\ r.snap.remaining = Seconds(duration)
              /\ r.snap.progress.num = 0

C18_Witness ==
    /\ lastOp.op = "start"
    /\ Started(pre)
    /\ pre.paused
    /\ Present(pre.pause_time)
    /\ Val(pre.start_time) < lastOp.at
    /\ duration > 0
    /\ start_time = Some(lastOp.at)

\* C19: reset() from any state clears startTime, endTime, pauseTime and
\* finished, sets paused = true and leaves configuredDuration unchanged.
C19_Reset ==
    lastOp.op = "reset"
    => /\ ~Present(start_time)
       /\ ~Present(end_time)
       /\ ~Present(pause_time)
       /\ ~finished
       /\ paused
       /\ duration = pre.duration

C19_Witness ==
    /\ lastOp.op = "reset"
    /\ Started(pre)
    /\ ~pre.paused
    /\ pre.duration > 0
    /\ ~Present(start_time)
    /\ duration = pre.duration

\* C20: setDuration(seconds) from any state sets configuredDuration =
\* max(0, seconds), 0 for a negative argument, and leaves startTime, endTime
\* and pauseTime absent, finished false and paused true, also when a run was
\* in progress.
C20_SetDuration ==
    lastOp.op = "set_duration"
    => /\ duration = (IF lastOp.arg < 0 THEN 0 ELSE lastOp.arg)
       /\ ~Present(start_time)
       /\ ~Present(end_time)
       /\ ~Present(pause_time)
       /\ ~finished
       /\ paused

C20_Witness ==
    /\ lastOp.op = "set_duration"
    /\ lastOp.arg < 0
    /\ IsRunningOf(pre)
    /\ pre.duration > 0
    /\ duration = 0
    /\ ~Present(start_time)

\* C21: resume() on a started, paused timer whose pauseTime is present shifts
\* startTime and endTime forward by exactly now - pauseTime, so endTime -
\* startTime is unchanged and the remaining evaluated at the instant of the
\* resume equals the remaining that every evaluate returned while paused; it
\* leaves paused = false and pauseTime absent.
C21_Resume ==
    (/\ lastOp.op = "resume"
     /\ Started(pre)
     /\ pre.paused
     /\ Present(pre.pause_time))
    => LET delta == lastOp.at - Val(pre.pause_time)
       IN  /\ start_time = Some(Val(pre.start_time) + delta)
           /\ end_time = Some(Val(pre.end_time) + delta)
           /\ Val(end_time) - Val(start_time)
                = Val(pre.end_time) - Val(pre.start_time)
           /\ \A t \in Val(pre.pause_time) .. lastOp.at :
                 RemainingOf(Fields, lastOp.at) = RemainingOf(pre, t)
           /\ ~paused
           /\ ~Present(pause_time)

C21_Witness ==
    /\ lastOp.op = "resume"
    /\ Started(pre)
    /\ pre.paused
    /\ Present(pre.pause_time)
    /\ ~pre.finished
    /\ lastOp.at > Val(pre.pause_time)
    /\ Val(pre.pause_time) > Val(pre.start_time)
    /\ RemainingOf(Fields, lastOp.at) > 0
    /\ ~paused

\* C22: evaluate never changes configuredDuration, startTime, endTime or
\* pauseTime; finished and paused are the only fields it may change, each
\* only from false to true; on a never-started timer it changes nothing;
\* isRunning() and hasFinished() change nothing.
C22_EvaluateFrame ==
    /\ lastOp.op = "evaluate"
       => /\ duration = pre.duration
          /\ start_time = pre.start_time
          /\ end_time = pre.end_time
          /\ pause_time = pre.pause_time
          /\ pre.finished => finished
          /\ pre.paused => paused
          /\ ~Present(pre.start_time) => Fields = pre
    /\ lastOp.op \in {"is_running", "has_finished"} => Fields = pre

C22_Witness ==
    /\ lastOp.op = "evaluate"
    /\ ~pre.finished
    /\ ~pre.paused
    /\ finished
    /\ paused
    /\ Val(pre.end_time) > Val(pre.start_time)
    /\ pause_time = pre.pause_time

\* C23: startTime is present exactly when start() has been called since the
\* last reset() or setDuration(): it goes from absent to present only in a
\* start() (which always leaves it present), and from present to absent only
\* in a reset() or a setDuration() (which always leave it absent).
C23_StartTimePresence ==
    /\ (~Present(pre.start_time) /\ Present(start_time)) => lastOp.op = "start"
    /\ (Present(pre.start_time) /\ ~Present(start_time))
          => lastOp.op \in {"reset", "set_duration"}
    /\ lastOp.op = "start" => Present(start_time)
    /\ lastOp.op \in {"reset", "set_duration"} => ~Present(start_time)
    /\ lastOp.op = "init" => ~Present(start_time)

C23_Witness ==
    /\ lastOp.op = "set_duration"
    /\ Present(pre.start_time)
    /\ pre.finished
    /\ ~Present(start_time)

\* C24: configuredDuration is non-negative in every state reachable from
\* CountdownTimer() by setDuration and addTime with any integer argument
\* (negative ones included), start, pause, resume, reset and evaluate.
C24_DurationNonNegative == duration >= 0

C24_Witness ==
    /\ lastOp.op = "add_time"
    /\ lastOp.arg < 0
    /\ ~Present(start_time)
    /\ duration = 0
    /\ pre.duration = 0

\* C28: evaluate is idempotent at a fixed instant: of two consecutive
\* evaluate calls made at the same now, the second returns the snapshot
\* (remaining, progress, total, now, end) that the first returned and leaves
\* every field as the first left it.
C28_Idempotent ==
    (/\ lastOp.op = "evaluate"
     /\ Present(prevEval)
     /\ Val(prevEval).at = lastOp.at)
    => (ret = Val(prevEval).snap /\ Fields = pre)

C28_Witness ==
    /\ lastOp.op = "evaluate"
    /\ Present(prevEval)
    /\ Val(prevEval).at = lastOp.at
    /\ Present(pause_time)
    /\ lastOp.at > Val(pause_time)
    /\ finished
    /\ Val(end_time) > Val(start_time)
    /\ ret = Val(prevEval).snap

\* C29 (as stated): whenever evaluate on a started timer returns remaining =
\* 0, the progress it returns is 1, for every configured duration, 0 included.
C29_ProgressAtZeroAsStated ==
    (/\ lastOp.op = "evaluate"
     /\ Started(pre)
     /\ ret.remaining = 0)
    => ret.progress.num = ret.progress.den

\* C29 (amended): whenever evaluate on a started timer returns remaining = 0,
\* the progress it returns is 1 when endTime - startTime is at least one
\* second, and 0 when endTime - startTime is zero (a timer started with a
\* configured duration of 0 and never extended).
C29_ProgressAtZero ==
    (/\ lastOp.op = "evaluate"
     /\ Started(pre)
     /\ ret.remaining = 0)
    => /\ ret.progress.den > 0
       /\ ret.total >= Seconds(1) => ret.progress.num = ret.progress.den
       /\ ret.total = 0 => ret.progress.num = 0
       /\ ret.total >= Seconds(1) \/ ret.total = 0

C29_Witness ==
    /\ lastOp.op = "evaluate"
    /\ Started(pre)
    /\ ~pre.finished
    /\ finished
    /\ ret.remaining = 0
    /\ ret.total > Seconds(pre.duration)
    /\ pre.duration > 0
    /\ ret.progress.num = ret.progress.den

\* C30: in every reachable state startTime is absent if and only if endTime
\* is absent, and whenever startTime is absent, paused is true, pauseTime is
\* absent and finished is false.
C30_IdleConsistent ==
    /\ Present(start_time) <=> Present(end_time)
    /\ ~Present(start_time)
          => (paused /\ ~Present(pause_time) /\ ~finished)

C30_Witness ==
    /\ lastOp.op = "resume"
    /\ ~Present(pre.start_time)
    /\ ~Present(start_time)
    /\ ~Present(end_time)
    /\ paused
    /\ duration > 0

\* C27: in a run that began with start() and went on through pause, resume,
\* addTime and evaluate calls (and the queries) on a clock that never goes
\* back, as long as no evaluate has returned remaining = 0, every evaluate
\* returns max(0, configuredDuration + the seconds added since the start -
\* the time elapsed since the start while paused was false).
C27_GeneralDrift ==
    [][(/\ run.ok
        /\ lastOp'.op = "evaluate"
        /\ clock' = clock)
       => ret'.remaining
            = Max(0, Seconds(duration + run.added) - run.active)]_vars

C27_Witness ==
    /\ lastOp.op = "evaluate"
    /\ lastOp.at = clock
    /\ run.ok
    /\ run.added > 0
    /\ run.active > 0
    /\ paused
    /\ Present(pause_time)
    /\ clock > Val(pause_time)
    /\ clock - Val(start_time) > run.active
    /\ ret.remaining > 0
    /\ ret.remaining = Seconds(duration + run.added) - run.active

\* C25: across every interleaving of _refresh polls with start_timer,
\* toggle_pause, reset_timer and add_time, _play_alarm has been invoked
\* exactly as many times as the timer's finished flag went from false to
\* true: once per transition, not once per poll, and never zero times for a
\* transition; between callbacks _completed is true exactly when finished is.
C25_AlarmDebounce ==
    /\ alarms = finishes
    /\ completed <=> finished

C25_Witness ==
    /\ lastOp.op = "_refresh"
    /\ pre.finished
    /\ finished
    /\ completed
    /\ alarms = 2
    /\ finishes = 2
    /\ lastOp.at > Val(end_time)

\* C26: when the timer is Running, time keeps passing and the poll keeps
\* being run, and from then on nothing but polls is run (no pause, reset,
\* setDuration, start or addTime), finished eventually becomes true.
C26_CompletionByPolling ==
    []((is_running /\ [](lastOp.op = "_refresh")) => <>finished)

C26_Witness ==
    /\ lastOp.op = "_refresh"
    /\ IsRunningOf(pre)
    /\ ~pre.finished
    /\ finished
    /\ lastOp.at >= Val(end_time)
    /\ Val(end_time) - Val(start_time) > Seconds(1)

\* C31: addTime(s), s > 0, on a started timer leaves configuredDuration,
\* startTime, paused and pauseTime unchanged and moves endTime by s (finished
\* is left false), so a start() or a reset() made afterwards uses the
\* duration configured before, not the extended one; addTime(s) on an idle
\* timer adds s to configuredDuration, and that duration is the one a later
\* start() runs for and a later reset() keeps.  No call other than
\* setDuration and an addTime on an idle timer changes configuredDuration.
C31_AddTimeFrame ==
    /\ (lastOp.op = "add_time" /\ lastOp.arg > 0 /\ Started(pre))
       => /\ duration = pre.duration
          /\ start_time = pre.start_time
          /\ paused = pre.paused
          /\ pause_time = pre.pause_time
          /\ end_time = Some(Val(pre.end_time) + Seconds(lastOp.arg))
          /\ ~finished
          /\ \A now \in LaterTimes :
                /\ Val(StartOf(Fields, now).end_time) = now + Seconds(pre.duration)
                /\ RemainingOf(ResetOf(Fields), now) = Seconds(pre.duration)
    /\ (lastOp.op = "add_time" /\ lastOp.arg > 0 /\ ~Started(pre))
       => /\ duration = pre.duration + lastOp.arg
          /\ \A now \in LaterTimes :
                /\ Val(StartOf(Fields, now).end_time)
                     = now + Seconds(pre.duration + lastOp.arg)
                /\ ResetOf(StartOf(Fields, now)).duration
                     = pre.duration + lastOp.arg
                /\ RemainingOf(ResetOf(Fields), now)
                     = Seconds(pre.duration + lastOp.arg)
    /\ lastOp.op \in {"start", "reset", "pause", "resume", "evaluate",
                      "is_running", "has_finished"}
       => duration = pre.duration
    /\ lastOp.op = "start"
       => Val(end_time) - Val(start_time) = Seconds(pre.duration)

C31_Witness ==
    /\ lastOp.op = "add_time"
    /\ lastOp.arg > 0
    /\ IsRunningOf(pre)
    /\ pre.duration > 0
    /\ duration = pre.duration
    /\ Val(end_time) - Val(start_time) = Seconds(duration + lastOp.arg)
    /\ clock > Val(start_time)

\* C32: start_timer with an entered duration <= 0 and the GUI add_time with
\* an entered amount <= 0 leave every field of the timer, the _completed
\* flag and the number of alarms as they were; so does toggle_pause on a
\* finished or never-started timer when the entered duration is <= 0.
C32_InputRejected ==
    [][(/\ clock' = clock
        /\ lastOp'.arg <= 0
        /\ \/ lastOp'.op \in {"start_timer", "gui_add_time"}
           \/ lastOp'.op = "toggle_pause" /\ (finished \/ ~Present(start_time)))
       => (/\ timer' = timer
           /\ completed' = completed
           /\ alarms' = alarms)]_vars

C32_Witness ==
    /\ lastOp.op = "toggle_pause"
    /\ lastOp.arg = 0
    /\ lastOp.at = clock
    /\ pre.finished
    /\ Fields = pre
    /\ completed
    /\ alarms > 0
====
